---- MODULE Spec2Model ----
(***************************************************************************)
(* Model of the CUDA deinterlacing filter of src/cuda_deint_precise.cu:    *)
(* the per-pixel kernel (deintKernel), its host wrapper (runDeintKernel),  *)
(* the frame callback (cudaDeintGetFrame) and construction                 *)
(* (cudaDeintCreate).                                                      *)
(*                                                                         *)
(* Two specifications:                                                     *)
(*   SpecKernel  runDeintKernel applied to bounded planes (pure function); *)
(*   Spec        construction followed by concurrent frame requests.       *)
(***************************************************************************)
EXTENDS Integers, Sequences, FiniteSets, TLC

VARIABLES
    inst,     \* "none" | "created" | "error" | "trap": outcome of cudaDeintCreate
    args,     \* the input map handed to cudaDeintCreate
    srcVi,    \* the upstream node's VSVideoInfo
    d,        \* CudaDeintData: vi, tff, mode
    pubVi,    \* the VSVideoInfo handed to createVideoFilter
    req,      \* per output index n: phase, API call log, returned frame
    refs,     \* per source index: frame references the filter currently holds
    kIn,      \* SpecKernel: the arguments of runDeintKernel
    kRuns,    \* SpecKernel: number of runs performed on kIn
    kFirst,   \* SpecKernel: outcome of the first run
    kLast     \* SpecKernel: outcome of the latest run

vars == <<inst, args, srcVi, d, pubVi, req, refs, kIn, kRuns, kFirst, kLast>>
filterVars == <<inst, args, srcVi, d, pubVi, req, refs>>
kernelVars == <<kIn, kRuns, kFirst, kLast>>

----------------------------------------------------------------------------
(* Bounds of the model *)

MaxN == 3        \* output indices 0 .. MaxN-1 are requested
MaxH == 7        \* plane heights 1 .. MaxH in SpecKernel
MaxW == 2        \* plane widths 1 .. MaxW in SpecKernel
MaxRuns == 2     \* runs of runDeintKernel on the same arguments

Samples == {0, 255}          \* sample values a source row is drawn from
Pads == {0, 1}               \* stride - width (alignment padding)
Garbage == {0, 170}          \* contents an uninitialised buffer may hold

----------------------------------------------------------------------------
(* C integer arithmetic *)

IntMax == 2147483647
IntMin == -2147483647 - 1

Abs(a) == IF a < 0 THEN -a ELSE a

\* C division and remainder truncate toward zero
CDiv(a, b) == IF a >= 0 THEN a \div b ELSE -((-a) \div b)
CMod(a, b) == a - b * CDiv(a, b)

\* store of an int into a uint8_t
ToU8(v) == v % 256

----------------------------------------------------------------------------
(* deintKernel *)

\* the parity test with the two fields exchanged
MissingSwapped(useTop, y) ==
    IF useTop # 0 THEN CMod(y, 2) = 0 ELSE CMod(y, 2) = 1

\* line 29
Missing(useTop, y) ==
    IF useTop # 0 THEN CMod(y, 2) = 1 ELSE CMod(y, 2) = 0

\* lines 40-41
ClampRow(yy, h) ==
    LET a == IF yy < 0 THEN 0 ELSE yy
    IN  IF a >= h THEN h - 1 ELSE a

\* the tap weights exchanged: 4 on the far rows, 1 on the near rows
WgtFarHeavy(dy) == IF Abs(dy) = 3 THEN 4 ELSE 1

\* line 42
Wgt(dy) == IF Abs(dy) = 1 THEN 4 ELSE 1

\* lines 37-45: the loop for (dy = -3; dy <= 3; dy += 2), from dy on,
\* accumulating into acc = [sum, weight]
RECURSIVE LumaLoop(_, _, _, _, _, _, _)
LumaLoop(src, x, y, h, stride, dy, acc) ==
    IF dy > 3 THEN acc
    ELSE LET yy  == ClampRow(y + dy, h)
             wgt == Wgt(dy)
         IN  LumaLoop(src, x, y, h, stride, dy + 2,
                      [sum    |-> acc.sum + src[yy * stride + x] * wgt,
                       weight |-> acc.weight + wgt])

\* lines 37-46
LumaPixel(src, x, y, h, stride) ==
    LET r == LumaLoop(src, x, y, h, stride, -3, [sum |-> 0, weight |-> 0])
    IN  ToU8(CDiv(r.sum + CDiv(r.weight, 2), r.weight))

\* the 2-tap average without the rounding term
ChromaPixelTruncating(src, x, y, h, stride) ==
    LET y0 == IF y > 0 THEN y - 1 ELSE 0
        y1 == IF y + 1 < h THEN y + 1 ELSE h - 1
    IN  ToU8(CDiv(src[y0 * stride + x] + src[y1 * stride + x], 2))

\* lines 50-54
ChromaPixel(src, x, y, h, stride) ==
    LET y0 == IF y > 0 THEN y - 1 ELSE 0
        y1 == IF y + 1 < h THEN y + 1 ELSE h - 1
        v0 == src[y0 * stride + x]
        v1 == src[y1 * stride + x]
    IN  ToU8(CDiv(v0 + v1 + 1, 2))

\* lines 29-56: the value thread (x, y) stores at dst[y * stride + x]
DeintPixel(src, x, y, h, stride, useTop, isChroma) ==
    IF ~Missing(useTop, y)
    THEN src[y * stride + x]
    ELSE IF isChroma = 0
         THEN LumaPixel(src, x, y, h, stride)
         ELSE ChromaPixel(src, x, y, h, stride)

\* lines 21-57: the whole grid; threads with x >= w or y >= h return at once,
\* so the bytes at columns w .. stride-1 of dst keep what they held
DeintKernel(src, dst, w, h, stride, useTop, isChroma) ==
    [i \in DOMAIN dst |->
        LET y == i \div stride
            x == i % stride
        IN  IF x >= w \/ y >= h
            THEN dst[i]
            ELSE DeintPixel(src, x, y, h, stride, useTop, isChroma)]

----------------------------------------------------------------------------
(* runDeintKernel *)

\* lines 66-84.  dev is what the device does in this call:
\*   dev.ok    every CUDA call succeeds; otherwise an allocation fails, the
\*             return codes are ignored and the final copy to dp fails too
\*   dev.fill  the contents of the fresh, never initialised d_dst
\* The result is the contents of dp after the call.
RunDeintKernel(sp, dp, w, h, stride, useTop, isChroma, dev) ==
    LET frame_size == stride * h
        d_src == [i \in 0 .. frame_size - 1 |-> sp[i]]
        d_dst0 == [i \in 0 .. frame_size - 1 |-> dev.fill]
        d_dst == DeintKernel(d_src, d_dst0, w, h, stride, useTop, isChroma)
    IN  IF dev.ok
        THEN [i \in DOMAIN dp |-> IF i < frame_size THEN d_dst[i] ELSE dp[i]]
        ELSE dp

Devices == [ok : BOOLEAN, fill : Garbage]

----------------------------------------------------------------------------
(* SpecKernel: runDeintKernel on bounded planes *)

\* a source plane whose row y holds rows[y] in column 0 and rows[y] + 7x
\* (mod 256) in column x; padding bytes hold 0
PlaneOf(rows, w, h, stride) ==
    [i \in 0 .. stride * h - 1 |->
        LET y == i \div stride
            x == i % stride
        IN  IF x < w THEN (rows[y] + 7 * x) % 256 ELSE 0]

KernelInputs ==
    UNION { UNION { { [w |-> w, h |-> h, stride |-> w + pad,
                       useTop |-> u, isChroma |-> c,
                       sp |-> PlaneOf(rows, w, h, w + pad),
                       dp |-> [i \in 0 .. (w + pad) * h - 1 |-> g]] :
                      rows \in [0 .. h - 1 -> Samples] } :
                    w \in 1 .. MaxW, pad \in Pads, u \in {0, 1}, c \in {0, 1},
                    g \in Garbage } :
            h \in 1 .. MaxH }

NoRun == [ok |-> FALSE, dp |-> <<>>]

\* no filter instance takes part in SpecKernel
FilterIdle ==
    /\ inst = "none"
    /\ args = <<>>
    /\ srcVi = <<>>
    /\ d = <<>>
    /\ pubVi = <<>>
    /\ req = <<>>
    /\ refs = <<>>

InitKernel ==
    /\ FilterIdle
    /\ kIn \in KernelInputs
    /\ kRuns = 0
    /\ kFirst = NoRun
    /\ kLast = NoRun

\* one call runDeintKernel(sp, dp, w, h, stride, useTop, isChroma) into a
\* destination buffer that holds kIn.dp before the call
RunKernel ==
    /\ kRuns < MaxRuns
    /\ \E dev \in Devices :
          LET out == [ok |-> dev.ok,
                      dp |-> RunDeintKernel(kIn.sp, kIn.dp, kIn.w, kIn.h,
                                            kIn.stride, kIn.useTop,
                                            kIn.isChroma, dev)]
          IN  /\ kLast' = out
              /\ kFirst' = IF kRuns = 0 THEN out ELSE kFirst
    /\ kRuns' = kRuns + 1
    /\ UNCHANGED <<kIn, filterVars>>

NextKernel == RunKernel

SpecKernel == InitKernel /\ [][NextKernel]_vars

----------------------------------------------------------------------------
(* cudaDeintCreate *)

Absent == [present |-> FALSE, val |-> 0]
Given(v) == [present |-> TRUE, val |-> v]

\* values a caller may pass for the optional integers
TffArgs == {Absent} \cup {Given(v) : v \in {0, 1, 2}}
ModeArgs == {Absent} \cup {Given(v) : v \in {0, 1, 2}}

\* upstream descriptors; every plane is width x height (no subsampling)
SrcInfos ==
    { [numFrames |-> 1, fpsNum |-> 24, fpsDen |-> 1,
       width |-> 2, height |-> 2, numPlanes |-> 1],
      [numFrames |-> 100, fpsNum |-> 24, fpsDen |-> 1,
       width |-> 1, height |-> 3, numPlanes |-> 3],
      [numFrames |-> 1073741824, fpsNum |-> 30000, fpsDen |-> 1001,
       width |-> 1, height |-> 2, numPlanes |-> 1] }

\* lines 158-159 and 161-162: mapGetInt sets err and yields 0 when the key
\* is absent; the (int) cast keeps every value of the model, all of which
\* fit an int
MapGetInt(arg, dflt) == IF arg.present THEN arg.val ELSE dflt

\* line 166: numFrames is an int; numFrames *= 2 overflows beyond IntMax/2
TimesTwoOverflows(x) == x > IntMax \div 2 \/ x < IntMin \div 2

\* the value a wrapping build leaves in an int after x *= 2
TimesTwoWrapped(x) ==
    IF ~TimesTwoOverflows(x) THEN 2 * x
    ELSE IF x > 0 THEN 2 * (x - 1073741824) + IntMin
    ELSE 2 * (x + 1073741824)

\* lines 164-167: the descriptor after the doubling (fpsNum is an int64_t and
\* the fpsNum of SrcInfos are far from its limit)
DerivedVi(vi, mode) ==
    IF mode = 0
    THEN [vi EXCEPT !.fpsNum = 2 * @, !.numFrames = TimesTwoWrapped(@)]
    ELSE vi

NoVi == [numFrames |-> 0, fpsNum |-> 0, fpsDen |-> 0,
         width |-> 0, height |-> 0, numPlanes |-> 0]
NoData == [vi |-> NoVi, tff |-> 0, mode |-> 0]
NoArgs == [clip |-> FALSE, tff |-> Absent, mode |-> Absent]

\* lines 149-154: "clip" is absent; the error is set and d is freed
CreateNoClip ==
    /\ inst = "none"
    /\ \E t \in TffArgs, m \in ModeArgs :
          args' = [clip |-> FALSE, tff |-> t, mode |-> m]
    /\ inst' = "error"
    /\ UNCHANGED <<srcVi, d, pubVi, req, refs, kernelVars>>

\* lines 147-172 with "clip" present
CudaDeintCreate ==
    /\ inst = "none"
    /\ \E vi \in SrcInfos, t \in TffArgs, m \in ModeArgs :
          LET tff  == MapGetInt(t, 1)
              mode == MapGetInt(m, 0)
              dvi  == DerivedVi(vi, mode)
          IN  /\ args' = [clip |-> TRUE, tff |-> t, mode |-> m]
              /\ srcVi' = vi
              /\ d' = [vi |-> dvi, tff |-> tff, mode |-> mode]
              /\ pubVi' = dvi
              \* signed overflow is undefined: the build wraps or traps
              /\ \/ inst' = "created"
                 \/ /\ mode = 0 /\ TimesTwoOverflows(vi.numFrames)
                    /\ inst' = "trap"
    /\ UNCHANGED <<req, refs, kernelVars>>

----------------------------------------------------------------------------
(* cudaDeintGetFrame *)

Outputs == 0 .. MaxN - 1

Call(op, arg) == [op |-> op, arg |-> arg]

\* the source index resolved without halving
SrcNIdentity(mode, n) == n

\* line 96
SrcNInitial(mode, n) == IF mode = 0 THEN CDiv(n, 2) ELSE n

\* line 102
SrcNReady(mode, n) == IF mode = 0 THEN CDiv(n, 2) ELSE n

\* the field choice ignoring the output index
UseTopFixed(mode, tff, n) == IF tff = 1 THEN 1 ELSE 0

\* lines 109-111
UseTop(mode, tff, n) ==
    IF mode = 0
    THEN (IF (CMod(n, 2) = 0) = (tff = 1) THEN 1 ELSE 0)
    ELSE (IF tff = 1 THEN 1 ELSE 0)

\* the frame the upstream node delivers for index s: every plane has the
\* descriptor's geometry, one byte of row padding, and contents that differ
\* from row to row, plane to plane and frame to frame
SourceFrame(s, vi) ==
    [p \in 0 .. vi.numPlanes - 1 |->
        [w |-> vi.width, h |-> vi.height, stride |-> vi.width + 1,
         buf |-> [i \in 0 .. (vi.width + 1) * vi.height - 1 |->
                     (41 * s + 19 * p + 90 * (i \div (vi.width + 1))
                      + 7 * (i % (vi.width + 1))) % 256]]]

\* lines 105-107: newVideoFrame; the plane buffers are not initialised
NewVideoFrame(vi, g) ==
    [p \in 0 .. vi.numPlanes - 1 |->
        [w |-> vi.width, h |-> vi.height, stride |-> vi.width + 1,
         buf |-> [i \in 0 .. (vi.width + 1) * vi.height - 1 |-> g]]]

\* lines 113-122: the plane loop; failed are the planes whose device calls
\* fail, g the contents of uninitialised device memory
ProcessPlanes(src, dst, numPlanes, useTop, failed, g) ==
    [p \in 0 .. numPlanes - 1 |->
        [dst[p] EXCEPT !.buf =
            RunDeintKernel(src[p].buf, dst[p].buf,
                           src[p].w, src[p].h, src[p].stride,
                           useTop, IF p > 0 THEN 1 ELSE 0,
                           [ok |-> p \notin failed, fill |-> g])]]

\* the device failures of one request: none, the first plane only, the
\* last plane only, or every plane
FailSets(numPlanes) ==
    {{}, {0}, {numPlanes - 1}, 0 .. numPlanes - 1}

\* line 97
InitialCalls(srcN) == <<Call("requestFrameFilter", srcN)>>

\* the calls of the ready branch with the source frame never freed
ReadyCallsLeaking(srcN, numPlanes) ==
    <<Call("getFrameFilter", srcN), Call("newVideoFrame", srcN)>>
    \o [p \in 1 .. numPlanes |-> Call("runDeintKernel", p - 1)]
    \o <<Call("return", srcN)>>

\* lines 103-125: the API calls of the ready branch, in program order
ReadyCalls(srcN, numPlanes) ==
    <<Call("getFrameFilter", srcN), Call("newVideoFrame", srcN)>>
    \o [p \in 1 .. numPlanes |-> Call("runDeintKernel", p - 1)]
    \o <<Call("freeFrame", srcN), Call("return", srcN)>>

\* the effect of a call sequence on the references held per source index
RECURSIVE ApplyRefs(_, _)
ApplyRefs(r, calls) ==
    IF calls = <<>> THEN r
    ELSE LET c == Head(calls)
             r1 == IF c.op = "getFrameFilter"
                   THEN [r EXCEPT ![c.arg] = @ + 1]
                   ELSE IF c.op = "freeFrame"
                        THEN [r EXCEPT ![c.arg] = @ - 1]
                        ELSE r
         IN  ApplyRefs(r1, Tail(calls))

NoFrame == [returned |-> FALSE, planes |-> <<>>, useTop |-> 0, srcN |-> 0,
            failed |-> {}]
IdleRequest == [phase |-> "idle", log |-> <<>>, ret |-> NoFrame]

\* the host activates output n only for a created filter and an index
\* within the published frame count
Requestable(n) == inst = "created" /\ n < pubVi.numFrames

\* lines 95-99: activationReason == arInitial
GetFrameInitial(n) ==
    /\ Requestable(n)
    /\ req[n].phase = "idle"
    /\ LET srcN == SrcNInitial(d.mode, n)
       IN  req' = [req EXCEPT ![n] =
                      [phase |-> "requested",
                       log |-> @.log \o InitialCalls(srcN),
                       ret |-> NoFrame]]
    /\ UNCHANGED <<inst, args, srcVi, d, pubVi, refs, kernelVars>>

\* lines 101-126: activationReason == arAllFramesReady
GetFrameAllFramesReady(n) ==
    /\ Requestable(n)
    /\ req[n].phase = "requested"
    /\ \E g \in Garbage, failed \in FailSets(d.vi.numPlanes) :
          LET srcN   == SrcNReady(d.mode, n)
              src    == SourceFrame(srcN, srcVi)
              dst    == NewVideoFrame(d.vi, g)
              useTop == UseTop(d.mode, d.tff, n)
              planes == ProcessPlanes(src, dst, d.vi.numPlanes, useTop,
                                      failed, g)
              calls  == ReadyCalls(srcN, d.vi.numPlanes)
          IN  /\ req' = [req EXCEPT ![n] =
                            [phase |-> "done",
                             log |-> @.log \o calls,
                             ret |-> [returned |-> TRUE, planes |-> planes,
                                      useTop |-> useTop, srcN |-> srcN,
                                      failed |-> failed]]]
              /\ refs' = ApplyRefs(refs, calls)
    /\ UNCHANGED <<inst, args, srcVi, d, pubVi, kernelVars>>

\* line 128: any other activation (arError) returns nullptr
GetFrameError(n) ==
    /\ Requestable(n)
    /\ req[n].phase = "requested"
    /\ req' = [req EXCEPT ![n] = [@ EXCEPT !.phase = "failed"]]
    /\ UNCHANGED <<inst, args, srcVi, d, pubVi, refs, kernelVars>>

Init ==
    /\ inst = "none"
    /\ args = NoArgs
    /\ srcVi = NoVi
    /\ d = NoData
    /\ pubVi = NoVi
    /\ req = [n \in Outputs |-> IdleRequest]
    /\ refs = [s \in Outputs |-> 0]
    /\ kIn = [w |-> 0, h |-> 0, stride |-> 0, useTop |-> 0, isChroma |-> 0,
              sp |-> <<>>, dp |-> <<>>]
    /\ kRuns = 0
    /\ kFirst = NoRun
    /\ kLast = NoRun

Next ==
    \/ CreateNoClip
    \/ CudaDeintCreate
    \/ \E n \in Outputs : GetFrameInitial(n)
    \/ \E n \in Outputs : GetFrameAllFramesReady(n)
    \/ \E n \in Outputs : GetFrameError(n)

Spec == Init /\ [][Next]_vars

----------------------------------------------------------------------------
(* Properties of the kernel, checked under SpecKernel *)

Max(a, b) == IF a > b THEN a ELSE b
Min(a, b) == IF a < b THEN a ELSE b

\* the clamp c of a row index to [0, h-1]
ClampTo(r, h) == Max(0, Min(h - 1, r))

\* sample (x, y) of a plane buffer laid out with the given stride
At(buf, stride, x, y) == buf[y * stride + x]

\* row y is a row of the missing field: the odd rows when the top field is
\* kept (useTop), the even rows otherwise
RowIsMissing(y) == IF kIn.useTop # 0 THEN y % 2 = 1 ELSE y % 2 = 0

\* the latest run executed the kernel and copied its output back
KernelRan == kRuns > 0 /\ kLast.ok

\* C2: on a luma plane every sample of every missing row, edge rows
\* included, is (1*s[c(y-3)] + 4*s[c(y-1)] + 4*s[c(y+1)] + 1*s[c(y+3)] + 5)
\* div 10 with c the clamp to [0, height-1]; coinciding rows count at full
\* weight and the divisor stays 10.
C2_LumaFourTap ==
    (KernelRan /\ kIn.isChroma = 0) =>
        \A y \in 0 .. kIn.h - 1 : \A x \in 0 .. kIn.w - 1 :
            RowIsMissing(y) =>
                At(kLast.dp, kIn.stride, x, y) =
                    (  1 * At(kIn.sp, kIn.stride, x, ClampTo(y - 3, kIn.h))
                     + 4 * At(kIn.sp, kIn.stride, x, ClampTo(y - 1, kIn.h))
                     + 4 * At(kIn.sp, kIn.stride, x, ClampTo(y + 1, kIn.h))
                     + 1 * At(kIn.sp, kIn.stride, x, ClampTo(y + 3, kIn.h))
                     + 5) \div 10

\* a luma run that reconstructed an interior row (3 <= y <= h-4) to a value
\* that is in neither neighbour, and a top edge row whose taps clamp
C2_Witness ==
    /\ KernelRan /\ kIn.isChroma = 0 /\ kIn.h >= 7 /\ kIn.useTop = 1
    /\ RowIsMissing(3)
    /\ At(kLast.dp, kIn.stride, 0, 3) \notin Samples
    /\ At(kIn.sp, kIn.stride, 0, 0) # At(kIn.sp, kIn.stride, 0, 2)
    /\ At(kLast.dp, kIn.stride, 0, 1) \notin Samples

\* C3: whenever the kernel has run on a plane (luma or chroma, either
\* field kept), every sample of every row that is not of the missing parity
\* equals the source sample.
C3_PresentRowsCopied ==
    KernelRan =>
        \A y \in 0 .. kIn.h - 1 : \A x \in 0 .. kIn.w - 1 :
            ~RowIsMissing(y) =>
                At(kLast.dp, kIn.stride, x, y) = At(kIn.sp, kIn.stride, x, y)

\* a run on a plane with present and missing rows whose present row differs
\* from what the destination held before and from its neighbouring rows
C3_Witness ==
    /\ KernelRan /\ kIn.h >= 3 /\ kIn.w >= 2
    /\ ~RowIsMissing(1)
    /\ At(kIn.sp, kIn.stride, 1, 1) # At(kIn.sp, kIn.stride, 1, 0)
    /\ At(kIn.sp, kIn.stride, 1, 1) # At(kIn.sp, kIn.stride, 1, 2)
    /\ At(kLast.dp, kIn.stride, 1, 1) # At(kIn.dp, kIn.stride, 1, 1)

\* C4: on a chroma plane every sample of every missing row, edge rows
\* included, is (s[max(y-1,0)] + s[min(y+1,height-1)] + 1) div 2.
C4_ChromaTwoTap ==
    (KernelRan /\ kIn.isChroma # 0) =>
        \A y \in 0 .. kIn.h - 1 : \A x \in 0 .. kIn.w - 1 :
            RowIsMissing(y) =>
                At(kLast.dp, kIn.stride, x, y) =
                    (  At(kIn.sp, kIn.stride, x, Max(y - 1, 0))
                     + At(kIn.sp, kIn.stride, x, Min(y + 1, kIn.h - 1))
                     + 1) \div 2

\* a chroma run that averaged two different rows with rounding up (128 from
\* 0 and 255) and reconstructed the bottom edge row from a clamped index
C4_Witness ==
    /\ KernelRan /\ kIn.isChroma = 1 /\ kIn.h >= 3
    /\ RowIsMissing(1) /\ At(kLast.dp, kIn.stride, 0, 1) = 128
    /\ \E hh \in 2 .. kIn.h : hh = kIn.h /\ RowIsMissing(hh - 1)

\* C10: two runs of the plane transform on the same arguments leave
\* byte-identical destination buffers (all stride x height bytes); stated
\* here granting that every device call of both runs succeeded.
C10_RunsByteIdentical ==
    (kRuns >= 2 /\ kFirst.ok /\ kLast.ok) => kFirst.dp = kLast.dp

----------------------------------------------------------------------------
(* Properties of the filter, checked under Spec *)

Created == inst = "created"
Done(n) == req[n].phase = "done"

\* the calls of request n named op, in log order
CallsOf(n, op) == SelectSeq(req[n].log, LAMBDA c : c.op = op)

\* the sample (x, y) of plane p of a frame
Sample(frame, p, x, y) == frame[p].buf[y * frame[p].stride + x]

\* C1: in double-rate mode the source frame requested and fetched for
\* output n is floor(n/2); outputs 2k and 2k+1 use the same source frame and
\* opposite missing-row parity; top-field-first keeps the even rows on the
\* even-indexed output (odd rows missing), bottom-field-first the odd rows.
C1_DoubleRateMapping ==
    (Created /\ d.mode = 0) =>
        /\ \A n \in Outputs :
              /\ req[n].phase # "idle" =>
                    CallsOf(n, "requestFrameFilter")
                        = <<Call("requestFrameFilter", n \div 2)>>
              /\ Done(n) =>
                    /\ CallsOf(n, "getFrameFilter")
                          = <<Call("getFrameFilter", n \div 2)>>
                    /\ req[n].ret.srcN = n \div 2
                    /\ (n % 2 = 0 /\ d.tff = 1) => req[n].ret.useTop = 1
                    /\ (n % 2 = 0 /\ d.tff = 0) => req[n].ret.useTop = 0
                    \* the rows kept are the source's own rows
                    /\ (n % 2 = 0 /\ d.tff \in {0, 1}
                        /\ req[n].ret.failed = {}) =>
                          \A p \in 0 .. d.vi.numPlanes - 1 :
                          \A y \in 0 .. d.vi.height - 1 :
                          \A x \in 0 .. d.vi.width - 1 :
                              (y % 2 = 1 - d.tff) =>
                                  Sample(req[n].ret.planes, p, x, y)
                                  = Sample(SourceFrame(n \div 2, srcVi),
                                           p, x, y)
        /\ \A k \in Outputs :
              (2 * k + 1 \in Outputs /\ Done(2 * k) /\ Done(2 * k + 1)) =>
                  /\ req[2 * k].ret.srcN = req[2 * k + 1].ret.srcN
                  /\ req[2 * k].ret.useTop # req[2 * k + 1].ret.useTop

\* both outputs of source frame 1 were produced, top field first
C1_Witness ==
    /\ Created /\ d.mode = 0 /\ d.tff = 1
    /\ Done(2) /\ Done(1) /\ Done(0)
    /\ req[2].ret.srcN = 1 /\ req[1].ret.srcN = 0
    /\ req[0].ret.useTop = 1 /\ req[1].ret.useTop = 0

\* C5: every source frame reference acquired is released exactly once: at
\* the end of every activation each request has as many releases as
\* fetches, of the same frames, each release after its fetch, and the filter
\* holds no reference.
C5_SourceReleasedOnce ==
    /\ \A s \in DOMAIN refs : refs[s] = 0
    /\ \A n \in Outputs :
          LET log == req[n].log
              fetches == CallsOf(n, "getFrameFilter")
              frees == CallsOf(n, "freeFrame")
          IN  /\ Len(fetches) = Len(frees)
              /\ \A i \in 1 .. Len(frees) : frees[i].arg = fetches[i].arg
              /\ \A j \in 1 .. Len(log) :
                    log[j].op = "freeFrame" =>
                        Cardinality({i \in 1 .. j : log[i].op = "freeFrame"})
                        <= Cardinality({i \in 1 .. j :
                                           log[i].op = "getFrameFilter"})
              /\ Done(n) => Len(fetches) = 1

\* requests ended by each kind of activation: two that produced a frame
\* from the same source frame, and one that was ended by an error
C5_Witness ==
    /\ Created /\ d.mode = 0
    /\ Done(0) /\ Done(1) /\ req[2].phase = "failed"
    /\ Len(CallsOf(0, "freeFrame")) = 1
    /\ Len(CallsOf(1, "freeFrame")) = 1

\* C6: when a device step fails during a plane's transform the request
\* fails: no destination frame is returned to the caller.
C6_NoFrameAfterDeviceFailure ==
    \A n \in Outputs : req[n].ret.failed # {} => ~req[n].ret.returned

\* the call sequence C7 prescribes for a completed request
ProtocolCalls(srcN, numPlanes) ==
    <<Call("requestFrameFilter", srcN),
      Call("getFrameFilter", srcN),
      Call("newVideoFrame", srcN)>>
    \o [p \in 1 .. numPlanes |-> Call("runDeintKernel", p - 1)]
    \o <<Call("freeFrame", srcN), Call("return", srcN)>>

\* the source index of output n as section 4.1 of the design resolves it
Resolved(n) == IF d.mode = 0 THEN n \div 2 ELSE n

\* C7: the initial activation issues exactly one request for the resolved
\* source index and returns no frame; the fetch, for the same index, and the
\* returned frame come only with the all-frames-ready activation; per request
\* the order is request, fetch, allocate, every plane, release, return.
C7_TwoPhaseProtocol ==
    Created =>
        \A n \in Outputs :
            /\ req[n].phase = "idle" => req[n].log = <<>>
            /\ req[n].phase \in {"requested", "failed"} =>
                  req[n].log = <<Call("requestFrameFilter", Resolved(n))>>
            /\ req[n].phase # "done" => ~req[n].ret.returned
            /\ Done(n) =>
                  /\ req[n].ret.returned
                  /\ req[n].log = ProtocolCalls(Resolved(n), d.vi.numPlanes)

\* a three-plane, double-rate instance with one request suspended after its
\* initial activation and another completed
C7_Witness ==
    /\ Created /\ d.mode = 0 /\ d.vi.numPlanes = 3
    /\ req[2].phase = "requested" /\ Done(1)
    /\ Len(req[1].log) = 8

\* the published descriptor is the source's with frame count and frame-rate
\* numerator doubled
IsDoubled(pub, src) ==
    /\ pub.numFrames % 2 = 0 /\ pub.numFrames \div 2 = src.numFrames
    /\ pub.fpsNum % 2 = 0 /\ pub.fpsNum \div 2 = src.fpsNum
    /\ pub.fpsDen = src.fpsDen /\ pub.width = src.width
    /\ pub.height = src.height /\ pub.numPlanes = src.numPlanes

\* C8: for every source descriptor, construction with mode = 0 publishes
\* the descriptor with frame count and fps numerator exactly doubled and
\* everything else unchanged, construction with mode = 1 publishes the
\* source descriptor, and the published descriptor never changes afterwards.
C8_DescriptorDerived ==
    [][ Created' =>
           /\ d'.mode = 0 => IsDoubled(pubVi', srcVi')
           /\ d'.mode = 1 => pubVi' = srcVi'
           /\ Created => pubVi' = pubVi ]_vars

\* C9: after every successful construction, whatever integers were passed
\* for mode and tff, mode is in {0,1} and tff is in {0,1}, and neither
\* changes during a later frame request.
C9_ConfigurationDomain ==
    [][ Created' =>
           /\ d'.mode \in {0, 1}
           /\ d'.tff \in {0, 1}
           /\ Created => (d'.mode = d.mode /\ d'.tff = d.tff) ]_vars

====
